---- MODULE Spec2Model ----
(***************************************************************************)
(* Model of arm/ripper/makemkv.py: the MakeMKV status-line accumulator     *)
(* (get_track_info and its helpers) and the rip orchestration (makemkv,    *)
(* prep_mkv, update_key, setup_rawpath, process_single_tracks,             *)
(* run_makemkv).                                                           *)
(*                                                                         *)
(* A Python str is a sequence of one-character strings, so that split,     *)
(* replace, strip, int and float are computed as Python computes them.     *)
(* Python index k is TLA+ index k+1.                                       *)
(***************************************************************************)
EXTENDS Integers, Sequences, FiniteSets, TLC

(***************************************************************************)
(* Bounds                                                                  *)
(***************************************************************************)
\* longest tool output (in status lines) enumerated for get_track_info
MaxLines == 3
\* longest tool output enumerated inside a whole makemkv run
MaxRipLines == 2
\* largest hour count of the enumerated length fields
MaxHours == 2

(***************************************************************************)
(* Python string primitives                                                *)
(***************************************************************************)
DigitVal == [c \in {"0","1","2","3","4","5","6","7","8","9"} |->
               CASE c = "0" -> 0 [] c = "1" -> 1 [] c = "2" -> 2 [] c = "3" -> 3
                 [] c = "4" -> 4 [] c = "5" -> 5 [] c = "6" -> 6 [] c = "7" -> 7
                 [] c = "8" -> 8 [] c = "9" -> 9]

IsDigits(s) == Len(s) > 0 /\ \A k \in 1..Len(s) : s[k] \in DOMAIN DigitVal

RECURSIVE DecVal(_)
DecVal(s) == IF Len(s) = 0 THEN 0
             ELSE 10 * DecVal(SubSeq(s, 1, Len(s) - 1)) + DigitVal[s[Len(s)]]

\* str.strip(): drop leading and trailing whitespace
RECURSIVE LStrip(_)
LStrip(s) == IF Len(s) > 0 /\ s[1] = " " THEN LStrip(Tail(s)) ELSE s

RECURSIVE RStrip(_)
RStrip(s) == IF Len(s) > 0 /\ s[Len(s)] = " " THEN RStrip(SubSeq(s, 1, Len(s) - 1)) ELSE s

Strip(s) == RStrip(LStrip(s))

\* str.replace(ch, ''): drop every occurrence of the character ch
RECURSIVE Replace(_, _)
Replace(s, ch) == IF Len(s) = 0 THEN <<>>
                  ELSE IF s[1] = ch THEN Replace(Tail(s), ch)
                  ELSE <<s[1]>> \o Replace(Tail(s), ch)

\* position of the first ch in s, 0 when there is none
RECURSIVE Find(_, _, _)
Find(s, ch, k) == IF k > Len(s) THEN 0
                  ELSE IF s[k] = ch THEN k ELSE Find(s, ch, k + 1)

\* str.split(sep): always at least one element
RECURSIVE Split(_, _)
Split(s, sep) == LET p == Find(s, sep, 1) IN
                 IF p = 0 THEN <<s>>
                 ELSE <<SubSeq(s, 1, p - 1)>> \o Split(SubSeq(s, p + 1, Len(s)), sep)

\* str.split(sep, 1): at most one split
SplitOnce(s, sep) == LET p == Find(s, sep, 1) IN
                     IF p = 0 THEN <<s>>
                     ELSE <<SubSeq(s, 1, p - 1), SubSeq(s, p + 1, Len(s))>>

\* str.split(): split on runs of whitespace, no empty elements
RECURSIVE SplitWs(_)
SplitWs(s) == LET t == LStrip(s)
                  p == Find(t, " ", 1) IN
              IF Len(t) = 0 THEN <<>>
              ELSE IF p = 0 THEN <<t>>
              ELSE <<SubSeq(t, 1, p - 1)>> \o SplitWs(SubSeq(t, p + 1, Len(t)))

\* int(str): surrounding whitespace and one sign are accepted
\* (digit-group underscores are outside the modelled alphabet)
IntBody(s) == LET t == Strip(s) IN
              IF Len(t) > 0 /\ t[1] \in {"+", "-"} THEN Tail(t) ELSE t

IsInt(s) == IsDigits(IntBody(s))

ToInt(s) == LET t == Strip(s) IN
            IF Len(t) > 0 /\ t[1] = "-" THEN 0 - DecVal(IntBody(s)) ELSE DecVal(IntBody(s))

\* float(str) for plain decimals: digits, optionally one '.' ; the value is
\* kept as mantissa m and number of decimals e (m / 10^e)
IsFloat(s) == LET t == IntBody(s)
                  p == Find(t, ".", 1) IN
              IF p = 0 THEN IsDigits(t)
              ELSE LET a == SubSeq(t, 1, p - 1)
                       b == SubSeq(t, p + 1, Len(t)) IN
                   /\ Len(a) + Len(b) > 0
                   /\ (Len(a) = 0 \/ IsDigits(a))
                   /\ (Len(b) = 0 \/ IsDigits(b))

ToFloat(s) == LET t == IntBody(s)
                  p == Find(t, ".", 1) IN
              IF p = 0 THEN [m |-> DecVal(t), e |-> 0]
              ELSE [m |-> DecVal(SubSeq(t, 1, p - 1) \o SubSeq(t, p + 1, Len(t))),
                    e |-> Len(t) - p]


(***************************************************************************)
(* Status lines of makemkvcon -r, as character sequences                   *)
(***************************************************************************)
S_MSG    == <<"M","S","G">>
S_TCOUNT == <<"T","C","O","U","N","T">>
S_CINFO  == <<"C","I","N","F","O">>
S_TINFO  == <<"T","I","N","F","O">>
S_SINFO  == <<"S","I","N","F","O">>

\* the tuple tested at line 226
Tags == {S_MSG, S_TCOUNT, S_CINFO, S_TINFO, S_SINFO}

Quoted(s) == <<"\"">> \o s \o <<"\"">>

RECURSIVE JoinComma(_)
JoinComma(fs) == IF Len(fs) = 0 THEN <<>>
                 ELSE IF Len(fs) = 1 THEN fs[1]
                 ELSE fs[1] \o <<",">> \o JoinComma(Tail(fs))

\* the text "tag:f1,f2,..."
Line(tag, fs) == tag \o <<":">> \o JoinComma(fs)

Title1Mkv == <<"t","i","t","l","e","1",".","m","k","v">>
Title0Mkv == <<"t","0",".","m","k","v">>
Hms_0_12_30 == <<"0",":","1","2",":","3","0">>
Hms_1_05_00 == <<"1",":","0","5",":","0","0">>
Aspect_16_9 == <<"1","6",":","9">>

L_TCOUNT3    == Line(S_TCOUNT, << <<"3">> >>)
L_T1_LEN     == Line(S_TINFO, << <<"1">>, <<"9">>, <<"0">>, Quoted(Hms_0_12_30) >>)
L_T1_NAME    == Line(S_TINFO, << <<"1">>, <<"2","7">>, <<"0">>, Quoted(Title1Mkv) >>)
L_T2_LEN     == Line(S_TINFO, << <<"2">>, <<"9">>, <<"0">>, Quoted(Hms_1_05_00) >>)
L_T0_NAME    == Line(S_TINFO, << <<"0">>, <<"2","7">>, <<"0">>, Quoted(Title0Mkv) >>)
L_S1_ASPECT  == Line(S_SINFO, << <<"1">>, <<"0">>, <<"2","0">>, <<"0">>, Quoted(Aspect_16_9) >>)
L_S1_FPS     == Line(S_SINFO, << <<"1">>, <<"0">>, <<"2","1">>, <<"0">>,
                                 Quoted(<<"2","5"," ","(","2","5",")">>) >>)
L_MSG        == Line(S_MSG, << <<"3","0","2","8">>, <<"0">>, <<"1">> >>)
L_CINFO      == Line(S_CINFO, << <<"1">>, <<"6","2","0","9">>, Quoted(<<"d">>) >>)
L_OTHER      == <<"D","R","V",":","0",",","2">>
\* malformed lines
L_BAD_INDEX  == Line(S_TINFO, << <<"x">>, <<"9">>, <<"0">>, Quoted(Hms_0_12_30) >>)
L_BAD_HMS    == Line(S_TINFO, << <<"2">>, <<"9">>, <<"0">>, Quoted(<<"1",":","0","5">>) >>)
L_SHORT_T    == Line(S_TINFO, << <<"2">> >>)
L_BAD_FPS    == Line(S_SINFO, << <<"1">>, <<"0">>, <<"2","1">>, <<"0">>, Quoted(<<"x">>) >>)
L_NO_COLON   == S_TINFO

GoodLines == {L_TCOUNT3, L_T1_LEN, L_T1_NAME, L_T2_LEN, L_T0_NAME, L_S1_ASPECT,
              L_S1_FPS, L_MSG, L_CINFO, L_OTHER}
BadLines  == {L_BAD_INDEX, L_BAD_HMS, L_SHORT_T, L_BAD_FPS, L_NO_COLON}
LineSet   == GoodLines \cup BadLines

\* the lines a makemkv run is checked with
RipLines  == {L_T1_LEN, L_T2_LEN, L_T0_NAME, L_BAD_INDEX}

BoundedSeq(S, n) == UNION {[1..k -> S] : k \in 0..n}

Scenario == <<L_TCOUNT3, L_T1_LEN, L_T1_NAME, L_T2_LEN>>

\* outputs of `makemkvcon info` enumerated for get_track_info
Outputs    == BoundedSeq(LineSet, MaxLines) \cup {Scenario}
RipOutputs == BoundedSeq(RipLines, MaxRipLines)

\* decimal digits of a natural number, and the two-digit form of 0..59
DigitChr(d) == <<"0","1","2","3","4","5","6","7","8","9">>[d + 1]

RECURSIVE Str(_)
Str(n) == IF n < 10 THEN <<DigitChr(n)>> ELSE Str(n \div 10) \o <<DigitChr(n % 10)>>

Pad2(n) == <<DigitChr(n \div 10), DigitChr(n % 10)>>

\* the length field H:MM:SS and the TINFO line of track 1 that carries it
Hms(h, m, s) == Str(h) \o <<":">> \o Pad2(m) \o <<":">> \o Pad2(s)

LenLine(h, m, s) == Line(S_TINFO, << <<"1">>, <<"9">>, <<"0">>, Quoted(Hms(h, m, s)) >>)

\* outputs enumerated for find_track_length: every length line with
\* 0 <= MM, SS < 60, alone or followed by a line that is not a length line
LengthOutputs ==
    {<<LenLine(h, m, s)>> : h \in 0..MaxHours, m \in 0..59, s \in 0..59}
    \cup {<<LenLine(h, m, s), x>> : h \in 0..MaxHours, m \in {0, 59}, s \in 0..59,
                                   x \in {L_T1_NAME, L_TCOUNT3, L_S1_ASPECT}}


(***************************************************************************)
(* get_track_info: the per-line helpers                                    *)
(***************************************************************************)
NoErr == "none"

\* the arguments of one utils.put_track(job, track, seconds, aspect, fps,
\* False, "MakeMKV", filename) call
TrackRow(track, seconds, aspect, fps, filename) ==
    [track_number |-> track, length |-> seconds, aspect_ratio |-> aspect,
     fps |-> fps, main_feature |-> FALSE, source |-> "MakeMKV", filename |-> filename]

\* add_track_filename with the zero test on the current track number
add_track_filename_GuardOnCurrent(aspect, filename, fps, line_track, msg, seconds, track) ==
    LET puts   == IF track # line_track /\ track # 0
                  THEN <<TrackRow(track, seconds, aspect, fps, filename)>>
                  ELSE <<>>
        track2 == IF track # line_track THEN line_track ELSE track
    IN  IF Len(msg) < 2
        THEN [err |-> "IndexError", puts |-> puts, filename |-> filename, track |-> track2]
        ELSE IF msg[2] # <<"2","7">>
        THEN [err |-> NoErr, puts |-> puts, filename |-> filename, track |-> track2]
        ELSE IF Len(msg) < 4
        THEN [err |-> "IndexError", puts |-> puts, filename |-> filename, track |-> track2]
        ELSE [err |-> NoErr, puts |-> puts,
              filename |-> Strip(Replace(msg[4], "\"")), track |-> track2]

\* add_track_filename clearing the filename at a track boundary
add_track_filename_ResetsFilename(aspect, filename, fps, line_track, msg, seconds, track) ==
    LET puts   == IF track # line_track /\ line_track # 0
                  THEN <<TrackRow(track, seconds, aspect, fps, filename)>>
                  ELSE <<>>
        track2 == IF track # line_track THEN line_track ELSE track
        name2  == IF track # line_track THEN <<>> ELSE filename
    IN  IF Len(msg) < 2
        THEN [err |-> "IndexError", puts |-> puts, filename |-> filename, track |-> track2]
        ELSE IF msg[2] # <<"2","7">>
        THEN [err |-> NoErr, puts |-> puts, filename |-> name2, track |-> track2]
        ELSE IF Len(msg) < 4
        THEN [err |-> "IndexError", puts |-> puts, filename |-> filename, track |-> track2]
        ELSE [err |-> NoErr, puts |-> puts,
              filename |-> Strip(Replace(msg[4], "\"")), track |-> track2]

\* add_track_filename reading the filename before the put_track of the boundary
add_track_filename_NameFirst(aspect, filename, fps, line_track, msg, seconds, track) ==
    LET name2  == IF Len(msg) >= 4 /\ msg[2] = <<"2","7">>
                  THEN Strip(Replace(msg[4], "\"")) ELSE filename
        puts   == IF track # line_track /\ line_track # 0
                  THEN <<TrackRow(track, seconds, aspect, fps, name2)>>
                  ELSE <<>>
        track2 == IF track # line_track THEN line_track ELSE track
    IN  IF Len(msg) < 2
        THEN [err |-> "IndexError", puts |-> puts, filename |-> filename, track |-> track2]
        ELSE IF msg[2] # <<"2","7">>
        THEN [err |-> NoErr, puts |-> puts, filename |-> filename, track |-> track2]
        ELSE IF Len(msg) < 4
        THEN [err |-> "IndexError", puts |-> puts, filename |-> filename, track |-> track2]
        ELSE [err |-> NoErr, puts |-> puts, filename |-> name2, track |-> track2]

\* add_track_filename; puts are the put_track calls it made before returning
\* or raising
add_track_filename(aspect, filename, fps, line_track, msg, seconds, track) ==
    LET puts   == IF track # line_track /\ line_track # 0
                  THEN <<TrackRow(track, seconds, aspect, fps, filename)>>
                  ELSE <<>>
        track2 == IF track # line_track THEN line_track ELSE track
    IN  IF Len(msg) < 2
        THEN [err |-> "IndexError", puts |-> puts, filename |-> filename, track |-> track2]
        ELSE IF msg[2] # <<"2","7">>
        THEN [err |-> NoErr, puts |-> puts, filename |-> filename, track |-> track2]
        ELSE IF Len(msg) < 4
        THEN [err |-> "IndexError", puts |-> puts, filename |-> filename, track |-> track2]
        ELSE [err |-> NoErr, puts |-> puts,
              filename |-> Strip(Replace(msg[4], "\"")), track |-> track2]

\* find_track_length without the hours term
find_track_length_NoHours(msg, msg_type, seconds) ==
    IF msg_type # S_TINFO
    THEN [err |-> NoErr, seconds |-> seconds]
    ELSE IF Len(msg) < 2
    THEN [err |-> "IndexError", seconds |-> seconds]
    ELSE IF msg[2] # <<"9">>
    THEN [err |-> NoErr, seconds |-> seconds]
    ELSE IF Len(msg) < 4
    THEN [err |-> "IndexError", seconds |-> seconds]
    ELSE LET hms == Split(Strip(Replace(msg[4], "\"")), ":") IN
         IF Len(hms) # 3 \/ ~IsInt(hms[1]) \/ ~IsInt(hms[2]) \/ ~IsInt(hms[3])
         THEN [err |-> "ValueError", seconds |-> seconds]
         ELSE [err |-> NoErr, seconds |-> ToInt(hms[2]) * 60 + ToInt(hms[3])]

\* find_track_length without the msg_type test
find_track_length_AnyType(msg, msg_type, seconds) ==
    IF Len(msg) < 2
    THEN [err |-> "IndexError", seconds |-> seconds]
    ELSE IF msg[2] # <<"9">>
    THEN [err |-> NoErr, seconds |-> seconds]
    ELSE IF Len(msg) < 4
    THEN [err |-> "IndexError", seconds |-> seconds]
    ELSE LET hms == Split(Strip(Replace(msg[4], "\"")), ":") IN
         IF Len(hms) # 3 \/ ~IsInt(hms[1]) \/ ~IsInt(hms[2]) \/ ~IsInt(hms[3])
         THEN [err |-> "ValueError", seconds |-> seconds]
         ELSE [err |-> NoErr,
               seconds |-> ToInt(hms[1]) * 3600 + ToInt(hms[2]) * 60 + ToInt(hms[3])]

\* find_track_length lines 255-259
find_track_length(msg, msg_type, seconds) ==
    IF msg_type # S_TINFO
    THEN [err |-> NoErr, seconds |-> seconds]
    ELSE IF Len(msg) < 2
    THEN [err |-> "IndexError", seconds |-> seconds]
    ELSE IF msg[2] # <<"9">>
    THEN [err |-> NoErr, seconds |-> seconds]
    ELSE IF Len(msg) < 4
    THEN [err |-> "IndexError", seconds |-> seconds]
    ELSE LET hms == Split(Strip(Replace(msg[4], "\"")), ":") IN
         IF Len(hms) # 3 \/ ~IsInt(hms[1]) \/ ~IsInt(hms[2]) \/ ~IsInt(hms[3])
         THEN [err |-> "ValueError", seconds |-> seconds]
         ELSE [err |-> NoErr,
               seconds |-> ToInt(hms[1]) * 3600 + ToInt(hms[2]) * 60 + ToInt(hms[3])]

find_aspect_fps(aspect, msg, msg_type, fps) ==
    IF msg_type # S_SINFO
    THEN [err |-> NoErr, aspect |-> aspect, fps |-> fps]
    ELSE IF Len(msg) < 2
    THEN [err |-> "IndexError", aspect |-> aspect, fps |-> fps]
    ELSE IF msg[2] # <<"0">>
    THEN [err |-> NoErr, aspect |-> aspect, fps |-> fps]
    ELSE IF Len(msg) < 3
    THEN [err |-> "IndexError", aspect |-> aspect, fps |-> fps]
    ELSE IF msg[3] = <<"2","0">>
    THEN IF Len(msg) < 5
         THEN [err |-> "IndexError", aspect |-> aspect, fps |-> fps]
         ELSE [err |-> NoErr, aspect |-> Strip(Replace(msg[5], "\"")), fps |-> fps]
    ELSE IF msg[3] = <<"2","1">>
    THEN IF Len(msg) < 5 \/ Len(SplitWs(msg[5])) = 0
         THEN [err |-> "IndexError", aspect |-> aspect, fps |-> fps]
         ELSE LET f == Strip(Replace(SplitWs(msg[5])[1], "\"")) IN
              IF IsFloat(f)
              THEN [err |-> NoErr, aspect |-> aspect, fps |-> ToFloat(f)]
              ELSE [err |-> "ValueError", aspect |-> aspect, fps |-> fps]
    ELSE [err |-> NoErr, aspect |-> aspect, fps |-> fps]

\* One iteration of the loop of get_track_info on `line`, from the locals
\* st = [track, seconds, aspect, fps, filename].  The result holds the locals
\* after the iteration, the put_track calls (puts) and database_updater
\* calls (titles) it made, and the exception that ended it (err).
LoopBody(line, st) ==
    LET same(e) == [err |-> e, track |-> st.track, seconds |-> st.seconds,
                    aspect |-> st.aspect, fps |-> st.fps, filename |-> st.filename,
                    puts |-> <<>>, titles |-> <<>>]
    IN
    IF Split(line, ":")[1] \notin Tags THEN same(NoErr)
    ELSE
    LET line_split == SplitOnce(line, ":")
        msg_type   == line_split[1]
    IN
    IF Len(line_split) < 2 THEN same("IndexError")
    ELSE
    LET msg == Split(line_split[2], ",") IN
    IF ~IsInt(msg[1]) THEN same("ValueError")
    ELSE
    LET line_track == ToInt(msg[1])
        isCount    == msg_type = S_TCOUNT
    IN
    IF isCount /\ ~IsInt(line_split[2]) THEN same("ValueError")
    ELSE
    LET titles == IF isCount THEN <<ToInt(line_split[2])>> ELSE <<>>
        a == IF msg_type = S_TINFO
             THEN add_track_filename(st.aspect, st.filename, st.fps, line_track, msg,
                                     st.seconds, st.track)
             ELSE [err |-> NoErr, puts |-> <<>>, filename |-> st.filename, track |-> st.track]
    IN
    IF a.err # NoErr
    THEN [err |-> a.err, track |-> st.track, seconds |-> st.seconds, aspect |-> st.aspect,
          fps |-> st.fps, filename |-> st.filename, puts |-> a.puts, titles |-> titles]
    ELSE
    LET l == find_track_length(msg, msg_type, st.seconds) IN
    IF l.err # NoErr
    THEN [err |-> l.err, track |-> a.track, seconds |-> st.seconds, aspect |-> st.aspect,
          fps |-> st.fps, filename |-> a.filename, puts |-> a.puts, titles |-> titles]
    ELSE
    LET f == find_aspect_fps(st.aspect, msg, msg_type, st.fps) IN
    [err |-> f.err, track |-> a.track, seconds |-> l.seconds, aspect |-> f.aspect,
     fps |-> f.fps, filename |-> a.filename, puts |-> a.puts, titles |-> titles]


(***************************************************************************)
(* State                                                                   *)
(***************************************************************************)
VARIABLES
    pc,        \* position in makemkv
    cfg,       \* cfg["RIPMETHOD"], int(cfg["MINLENGTH"]), int(cfg["MAXLENGTH"])
    disctype,  \* job.disctype
    cmds,      \* the external commands run so far, with their exit codes
    rawpath,   \* the local rawpath of makemkv
    fs,        \* what setup_rawpath met: os.path.exists and os.makedirs
    mkv,       \* get_track_info: the status lines
    i,         \* get_track_info: index of the next line
    track, seconds, aspect, fps, filename,   \* get_track_info: the locals
    emitted,   \* the utils.put_track calls made, in order
    titles,    \* the utils.database_updater({'no_of_titles': n}) calls made
    ti,        \* process_single_tracks: index of the next track
    tracklog,  \* process_single_tracks: the decision taken for each track
    err,       \* the exception propagating out of makemkv
    errlog,    \* the logging.error messages
    result     \* the value makemkv returned

vars == <<pc, cfg, disctype, cmds, rawpath, fs, mkv, i, track, seconds, aspect, fps,
          filename, emitted, titles, ti, tracklog, err, errlog, result>>

gtiLocals == <<mkv, i, track, seconds, aspect, fps, filename, emitted, titles>>

\* an exception value: its class, its returncode (<<>> when the class has
\* none), its output, and the logging.error messages written on the way
NoExc  == [kind |-> NoErr, code |-> <<>>, output |-> <<>>, logged |-> <<>>]

\* exit codes a command is run with: 10 and 253 are the codes of lines
\* 158-169, 0 and 1 the ordinary success and failure
ExitCodes == {0, 1, 10, 253}

\* subprocess.CalledProcessError of the run-th command run
CalledProcessError(cmd, run, code) ==
    [cmd |-> cmd, returncode |-> code, output |-> <<cmd, run>>]

PyException(kind) == [kind |-> kind, code |-> <<>>, output |-> <<>>, logged |-> <<>>]

\* What `raise MakeMkvRuntimeError(error)` leaves propagating.  __init__ builds
\* and logs the message, then evaluates `raise super().__init__(...)`:
\* super().__init__ returns None and `raise None` is a TypeError, so the
\* constructor never returns and the TypeError is what the caller gets.
MakeMkvRuntimeError(error) ==
    [kind |-> "TypeError", code |-> <<>>, output |-> <<>>,
     logged |-> << [text |-> "Call to MakeMKV failed with code",
                    returncode |-> error.returncode, output |-> error.output] >>]

\* run_makemkv with the 10-is-healthy convention of the probe
run_makemkv_TenIsOk(cmd, run, code) ==
    IF code \in {0, 10} THEN NoExc
    ELSE MakeMkvRuntimeError(CalledProcessError(cmd, run, code))

\* run_makemkv(cmd) when the command exits with `code`
run_makemkv(cmd, run, code) ==
    IF code = 0 THEN NoExc ELSE MakeMkvRuntimeError(CalledProcessError(cmd, run, code))

\* prep_mkv's first run with the branches for 10 and 253 exchanged
prep_mkv_first_Swapped(run, code) ==
    IF code = 0 THEN [next |-> "return", exc |-> NoExc]
    ELSE IF code = 10 THEN [next |-> "update_key", exc |-> NoExc]
    ELSE IF code = 253 THEN [next |-> "return", exc |-> NoExc]
    ELSE [next |-> "raise", exc |-> MakeMkvRuntimeError(CalledProcessError("probe", run, code))]

\* prep_mkv, first subprocess.run (lines 154-173): what follows exit `code`
prep_mkv_first(run, code) ==
    IF code = 0 THEN [next |-> "return", exc |-> NoExc]
    ELSE IF code = 253 THEN [next |-> "update_key", exc |-> NoExc]
    ELSE IF code = 10 THEN [next |-> "return", exc |-> NoExc]
    ELSE [next |-> "raise", exc |-> MakeMkvRuntimeError(CalledProcessError("probe", run, code))]

\* prep_mkv's second run accepting every exit code but 253
prep_mkv_retry_Lenient(run, code) ==
    IF code # 253 THEN [next |-> "return", exc |-> NoExc]
    ELSE [next |-> "raise", exc |-> MakeMkvRuntimeError(CalledProcessError("probe", run, code))]

\* prep_mkv, second subprocess.run (lines 162-168)
prep_mkv_retry(run, code) ==
    IF code = 0 THEN [next |-> "return", exc |-> NoExc]
    ELSE IF code = 10 THEN [next |-> "return", exc |-> NoExc]
    ELSE [next |-> "raise", exc |-> MakeMkvRuntimeError(CalledProcessError("probe", run, code))]

\* update_key when the script exits with `code`
update_key(code) ==
    IF code = 0 THEN NoExc
    ELSE [kind |-> "RuntimeError", code |-> <<code>>, output |-> <<>>,
          logged |-> << [text |-> "Error updating MakeMKV key, return code",
                         returncode |-> code, output |-> <<>>] >>]

Cmd(cmd, arg, code) == [cmd |-> cmd, arg |-> arg, code |-> code]

\* an exception leaves makemkv
Raise(e) ==
    /\ pc' = "raised"
    /\ err' = [kind |-> e.kind, code |-> e.code, output |-> e.output]
    /\ errlog' = errlog \o e.logged

NoRaise == UNCHANGED <<err, errlog>>


(***************************************************************************)
(* makemkv: the actions                                                    *)
(***************************************************************************)
\* the threshold of line 68
WholeDiscThreshold == 99998

RipMethods == {"backup", "mkv"}
DiscTypes  == {"bluray", "dvd", "data"}
MinLengths == {700, 3500}
MaxLengths == {3000, WholeDiscThreshold, WholeDiscThreshold + 1}

\* job.tracks as process_single_tracks reads it: the rows put_track stored
JobTracks == emitted

InitCommon ==
    /\ mkv = <<>> /\ i = 1
    /\ track = 0 /\ seconds = 0 /\ aspect = <<>> /\ fps = [m |-> 0, e |-> 0]
    /\ filename = <<>>
    /\ emitted = <<>> /\ titles = <<>>
    /\ ti = 1 /\ tracklog = <<>>
    /\ err = [kind |-> NoErr, code |-> <<>>, output |-> <<>>]
    /\ errlog = <<>>
    /\ result = "none"

Init ==
    /\ pc = "prep_mkv"
    /\ cfg \in [RIPMETHOD : RipMethods, MINLENGTH : MinLengths, MAXLENGTH : MaxLengths]
    /\ disctype \in DiscTypes
    /\ cmds = <<>>
    /\ rawpath = "none"
    /\ fs = [existed |-> FALSE, makedirs |-> "none"]
    /\ InitCommon

\* prep_mkv: the first `makemkvcon info`
PrepMkv ==
    /\ pc = "prep_mkv"
    /\ \E code \in ExitCodes :
         LET r == prep_mkv_first(Len(cmds) + 1, code) IN
         /\ cmds' = Append(cmds, Cmd("probe", <<>>, code))
         /\ IF r.next = "raise" THEN Raise(r.exc)
            ELSE /\ pc' = (IF r.next = "return" THEN "disc_number" ELSE "update_key")
                 /\ NoRaise
    /\ UNCHANGED <<cfg, disctype, rawpath, fs, gtiLocals, ti, tracklog, result>>

\* update_key: the key update script
UpdateKey ==
    /\ pc = "update_key"
    /\ \E code \in {0, 1} :
         LET e == update_key(code) IN
         /\ cmds' = Append(cmds, Cmd("update_key", <<>>, code))
         /\ IF e.kind # NoErr THEN Raise(e)
            ELSE pc' = "prep_retry" /\ NoRaise
    /\ UNCHANGED <<cfg, disctype, rawpath, fs, gtiLocals, ti, tracklog, result>>

\* prep_mkv: the second `makemkvcon info`
PrepRetry ==
    /\ pc = "prep_retry"
    /\ \E code \in ExitCodes :
         LET r == prep_mkv_retry(Len(cmds) + 1, code) IN
         /\ cmds' = Append(cmds, Cmd("probe", <<>>, code))
         /\ IF r.next = "raise" THEN Raise(r.exc)
            ELSE /\ pc' = (IF r.next = "return" THEN "disc_number" ELSE r.next)
                 /\ NoRaise
    /\ UNCHANGED <<cfg, disctype, rawpath, fs, gtiLocals, ti, tracklog, result>>

\* makemkv lines 43-51: the disc number query
DiscNumber ==
    /\ pc = "disc_number"
    /\ \E code \in {0, 1} :
         /\ cmds' = Append(cmds, Cmd("disc_number", <<>>, code))
         /\ IF code # 0
            THEN Raise(MakeMkvRuntimeError(CalledProcessError("disc_number", Len(cmds) + 1, code)))
            ELSE pc' = "setup_rawpath" /\ NoRaise
    /\ UNCHANGED <<cfg, disctype, rawpath, fs, gtiLocals, ti, tracklog, result>>

\* setup_rawpath returning the path it found to exist already
setup_rawpath_KeepsBase(existed, made) == [path |-> "base", exc |-> NoExc]

\* setup_rawpath lines 123-140: `existed` is os.path.exists(raw_path), `made`
\* the outcome of the one os.makedirs call; "base" is the path passed in and
\* "suffixed" the path built from the title and job.stage
setup_rawpath(existed, made) ==
    IF ~existed
    THEN [path |-> "base", exc |-> NoExc]
    ELSE [path |-> "suffixed",
          exc  |-> IF made = "ok" THEN NoExc ELSE PyException("SystemExit")]

\* makemkv line 54: the call of setup_rawpath
SetupRawpath ==
    /\ pc = "setup_rawpath"
    /\ \E existed \in BOOLEAN, made \in {"ok", "FileExistsError", "PermissionError"} :
         LET r == setup_rawpath(existed, made) IN
         /\ fs' = [existed |-> existed, makedirs |-> made]
         /\ rawpath' = r.path
         /\ IF r.exc = NoExc THEN pc' = "rip" /\ NoRaise ELSE Raise(r.exc)
    /\ UNCHANGED <<cfg, disctype, cmds, gtiLocals, ti, tracklog, result>>

\* the backup test of line 57 without the disc type
BackupSelected_AnyDisc == cfg.RIPMETHOD = "backup"

BackupSelected == cfg.RIPMETHOD = "backup" /\ disctype = "bluray"
MkvSelected    == ~BackupSelected /\ (cfg.RIPMETHOD = "mkv" \/ disctype = "dvd")

\* one run_makemkv(cmd) call: the command, then `ok` or the exception
RunMakemkv(cmd, arg, ok) ==
    \E code \in ExitCodes :
        LET e == run_makemkv(cmd, Len(cmds) + 1, code) IN
        /\ cmds' = Append(cmds, Cmd(cmd, arg, code))
        /\ IF e.kind # NoErr THEN Raise(e) ELSE pc' = ok /\ NoRaise

\* makemkv lines 57-62
RunBackup ==
    /\ pc = "rip" /\ BackupSelected
    /\ RunMakemkv("backup", <<>>, "eject")
    /\ UNCHANGED <<cfg, disctype, rawpath, fs, gtiLocals, ti, tracklog, result>>

\* makemkv lines 74-75
Confused ==
    /\ pc = "rip" /\ ~BackupSelected /\ ~MkvSelected
    /\ pc' = "eject"
    /\ UNCHANGED <<cfg, disctype, cmds, rawpath, fs, gtiLocals, ti, tracklog, err, errlog,
                   result>>

\* get_track_info lines 205-221: the info command, whose output on success is
\* `out`, and the initial locals
GetTrackInfoCmd(out) ==
    /\ pc = "rip" /\ MkvSelected
    /\ \E code \in {0, 1} :
         /\ cmds' = Append(cmds, Cmd("info", <<>>, code))
         /\ IF code # 0
            THEN /\ Raise(MakeMkvRuntimeError(CalledProcessError("info", Len(cmds) + 1, code)))
                 /\ UNCHANGED gtiLocals
            ELSE /\ mkv' = out
                 /\ i' = 1 /\ track' = 0 /\ fps' = [m |-> 0, e |-> 0] /\ aspect' = <<>>
                 /\ seconds' = 0 /\ filename' = <<>>
                 /\ pc' = "gti_loop"
                 /\ NoRaise
                 /\ UNCHANGED <<emitted, titles>>
    /\ UNCHANGED <<cfg, disctype, rawpath, fs, ti, tracklog, result>>

GetTrackInfo == pc = "rip" /\ \E out \in RipOutputs : GetTrackInfoCmd(out)

\* get_track_info lines 222-242: one iteration of the loop
GtiLine ==
    /\ pc = "gti_loop" /\ i <= Len(mkv)
    /\ LET r == LoopBody(mkv[i], [track |-> track, seconds |-> seconds, aspect |-> aspect,
                                  fps |-> fps, filename |-> filename]) IN
       /\ track' = r.track /\ seconds' = r.seconds /\ aspect' = r.aspect
       /\ fps' = r.fps /\ filename' = r.filename
       /\ emitted' = emitted \o r.puts
       /\ titles' = titles \o r.titles
       /\ IF r.err # NoErr
          THEN Raise(PyException(r.err)) /\ i' = i
          ELSE pc' = pc /\ i' = i + 1 /\ NoRaise
    /\ UNCHANGED <<cfg, disctype, cmds, rawpath, fs, mkv, ti, tracklog, result>>

\* the put_track after the loop made only for a non-zero track number
FlushRow_OnlyNonZero(t, s, a, f, n) == IF t # 0 THEN <<TrackRow(t, s, a, f, n)>> ELSE <<>>

\* the row get_track_info registers at line 244
FlushRow(t, s, a, f, n) == <<TrackRow(t, s, a, f, n)>>

\* get_track_info lines 243-244: the put_track after the loop
GtiFlush ==
    /\ pc = "gti_loop" /\ i > Len(mkv)
    /\ emitted' = emitted \o FlushRow(track, seconds, aspect, fps, filename)
    /\ pc' = "max_length"
    /\ UNCHANGED <<cfg, disctype, cmds, rawpath, fs, mkv, i, track, seconds, aspect, fps,
                   filename, titles, ti, tracklog, err, errlog, result>>

\* the test of line 68 off by one
WholeDisc_OffByOne == cfg.MAXLENGTH >= WholeDiscThreshold

WholeDisc == cfg.MAXLENGTH > WholeDiscThreshold

\* makemkv lines 68-71
RunWholeDisc ==
    /\ pc = "max_length" /\ WholeDisc
    /\ RunMakemkv("mkv_all", <<>>, "eject")
    /\ UNCHANGED <<cfg, disctype, rawpath, fs, gtiLocals, ti, tracklog, result>>

\* makemkv lines 72-73: the call of process_single_tracks
SingleTracks ==
    /\ pc = "max_length" /\ ~WholeDisc
    /\ pc' = "tracks" /\ ti' = 1
    /\ UNCHANGED <<cfg, disctype, cmds, rawpath, fs, gtiLocals, tracklog, err, errlog,
                   result>>

\* the decision without the too-long test
TrackDecision_NoMax(t) ==
    IF t.length < cfg.MINLENGTH THEN "short" ELSE "rip"

\* process_single_tracks lines 92-101: the decision for one track
TrackDecision(t) ==
    IF t.length < cfg.MINLENGTH THEN "short"
    ELSE IF t.length > cfg.MAXLENGTH THEN "long"
    ELSE "rip"

\* process_single_tracks: one iteration of the loop
SingleTrack ==
    /\ pc = "tracks" /\ ti <= Len(JobTracks)
    /\ LET t == JobTracks[ti]
           d == TrackDecision(t) IN
       /\ tracklog' = Append(tracklog, <<t.track_number, d>>)
       /\ ti' = ti + 1
       /\ IF d = "rip"
          THEN RunMakemkv("mkv_track", <<t.track_number>>, "tracks")
          ELSE pc' = pc /\ UNCHANGED <<cmds, err, errlog>>
    /\ UNCHANGED <<cfg, disctype, rawpath, fs, gtiLocals, result>>

\* process_single_tracks returns
SingleTracksDone ==
    /\ pc = "tracks" /\ ti > Len(JobTracks)
    /\ pc' = "eject"
    /\ UNCHANGED <<cfg, disctype, cmds, rawpath, fs, gtiLocals, ti, tracklog, err, errlog,
                   result>>

\* makemkv lines 77-79
Eject ==
    /\ pc = "eject"
    /\ pc' = "done"
    /\ result' = rawpath
    /\ UNCHANGED <<cfg, disctype, cmds, rawpath, fs, gtiLocals, ti, tracklog, err, errlog>>

Next ==
    \/ PrepMkv \/ UpdateKey \/ PrepRetry \/ DiscNumber \/ SetupRawpath
    \/ RunBackup \/ Confused \/ GetTrackInfo \/ GtiLine \/ GtiFlush
    \/ RunWholeDisc \/ SingleTracks \/ SingleTrack \/ SingleTracksDone \/ Eject

Spec == Init /\ [][Next]_vars

(***************************************************************************)
(* get_track_info alone, on every enumerated output of the info command    *)
(***************************************************************************)
InitTrack ==
    /\ pc = "rip"
    /\ cfg = [RIPMETHOD |-> "mkv", MINLENGTH |-> 700, MAXLENGTH |-> 3000]
    /\ disctype = "dvd"
    /\ cmds = <<Cmd("probe", <<>>, 10), Cmd("disc_number", <<>>, 0)>>
    /\ rawpath = "base"
    /\ fs = [existed |-> FALSE, makedirs |-> "ok"]
    /\ InitCommon

GetTrackInfoAll == pc = "rip" /\ \E out \in Outputs : GetTrackInfoCmd(out)

NextTrack == GetTrackInfoAll \/ GtiLine \/ GtiFlush

SpecTrack == InitTrack /\ [][NextTrack]_vars

(***************************************************************************)
(* get_track_info on the enumerated length lines                           *)
(***************************************************************************)
GetTrackInfoLen == pc = "rip" /\ \E out \in LengthOutputs : GetTrackInfoCmd(out)

NextLength == GetTrackInfoLen \/ GtiLine \/ GtiFlush

SpecLength == InitTrack /\ [][NextLength]_vars


(***************************************************************************)
(* Properties of get_track_info (checked under SpecTrack)                  *)
(***************************************************************************)
Locals0 == [track |-> 0, seconds |-> 0, aspect |-> <<>>, fps |-> [m |-> 0, e |-> 0],
            filename |-> <<>>]

\* the line is a TINFO record with an integer trackIndex
IsTinfo(line) ==
    /\ Len(SplitOnce(line, ":")) = 2
    /\ SplitOnce(line, ":")[1] = S_TINFO
    /\ IsInt(Split(SplitOnce(line, ":")[2], ",")[1])

TinfoIndex(line) == ToInt(Split(SplitOnce(line, ":")[2], ",")[1])

\* the trackIndex values of the TINFO records of a sequence, in order
TinfoIndices(lines) ==
    LET F[k \in 0..Len(lines)] ==
            IF k = 0 THEN <<>>
            ELSE IF IsTinfo(lines[k]) THEN Append(F[k - 1], TinfoIndex(lines[k]))
            ELSE F[k - 1]
    IN F[Len(lines)]

NonZeroIndices(lines) ==
    {TinfoIndices(lines)[k] : k \in 1..Len(TinfoIndices(lines))} \ {0}

\* every line decodes, and the TINFO records of one track are consecutive
\* among the TINFO records (an index never comes back after another one)
WellFormed(lines) ==
    /\ \A k \in 1..Len(lines) : LoopBody(lines[k], Locals0).err = NoErr
    /\ LET ix == TinfoIndices(lines) IN
       \A a, b, c \in 1..Len(ix) : a < b /\ b < c /\ ix[a] = ix[c] => ix[b] = ix[a]

GtiReturned == pc = "max_length"

TrackNumbers == [k \in 1..Len(emitted) |-> emitted[k].track_number]

\* C1 as stated: on a well-formed sequence, get_track_info emits as many
\* descriptors as there are distinct non-zero trackIndex values in its TINFO
\* records.
C1_EmittedEqualsNonZeroIndices ==
    GtiReturned /\ WellFormed(mkv) => Len(emitted) = Cardinality(NonZeroIndices(mkv))

\* C1 amended: on a well-formed sequence, get_track_info emits one descriptor
\* more than there are distinct non-zero trackIndex values in its TINFO
\* records; the additional one carries trackNumber 0.
C1_EmittedIsNonZeroIndicesPlusOne ==
    GtiReturned /\ WellFormed(mkv) =>
        /\ Len(emitted) = Cardinality(NonZeroIndices(mkv)) + 1
        /\ \E k \in 1..Len(emitted) : emitted[k].track_number = 0

C1_Witness ==
    /\ GtiReturned /\ WellFormed(mkv)
    /\ Cardinality(NonZeroIndices(mkv)) = 2
    /\ 0 \in {TinfoIndices(mkv)[k] : k \in 1..Len(TinfoIndices(mkv))}
    /\ Len(emitted) = 3

\* C2 as stated: get_track_info never emits a descriptor with trackNumber 0,
\* neither at a track boundary nor by the put_track after the loop.
C2_NeverEmitsTrackZero ==
    \A k \in 1..Len(emitted) : emitted[k].track_number # 0

\* C2 amended: a TINFO line whose trackIndex is 0 emits nothing; a TINFO line
\* with a non-zero trackIndex met while the current track number is 0 emits
\* the descriptor with trackNumber 0; and the put_track after the loop always
\* emits one descriptor, with the current track number, 0 included.
C2_ZeroGuardIsOnNewIndex ==
    [][ /\ (pc = "gti_loop" /\ i <= Len(mkv) /\ IsTinfo(mkv[i]) /\ TinfoIndex(mkv[i]) = 0)
            => emitted' = emitted
        /\ (pc = "gti_loop" /\ i <= Len(mkv) /\ IsTinfo(mkv[i]) /\ TinfoIndex(mkv[i]) # 0
              /\ track = 0)
            => /\ Len(emitted') = Len(emitted) + 1
               /\ emitted'[Len(emitted')].track_number = 0
        /\ (pc = "gti_loop" /\ i > Len(mkv))
            => /\ Len(emitted') = Len(emitted) + 1
               /\ emitted'[Len(emitted')].track_number = track
               /\ SubSeq(emitted', 1, Len(emitted)) = emitted
      ]_vars

C2_Witness ==
    /\ GtiReturned
    /\ Len(mkv) = 2 /\ IsTinfo(mkv[1]) /\ TinfoIndex(mkv[1]) # 0
    /\ IsTinfo(mkv[2]) /\ TinfoIndex(mkv[2]) = 0
    /\ TrackNumbers = <<0, 0>>

\* C3: within one run, no two emitted descriptors carry the same trackNumber.
C3_NoDuplicateTrackNumbers ==
    \A a, b \in 1..Len(emitted) : a # b => emitted[a].track_number # emitted[b].track_number


\* track number, length and filename of the emitted descriptors, in order
Catalog == [k \in 1..Len(emitted) |->
               <<emitted[k].track_number, emitted[k].length, emitted[k].filename>>]

\* C4 as stated: the four lines TCOUNT:3, TINFO:1,9,0,"0:12:30",
\* TINFO:1,27,0,"title1.mkv", TINFO:2,9,0,"1:05:00" give exactly the catalog
\* [track 1: 750 s, "title1.mkv"; track 2: 3900 s, no filename] and set the
\* title count to 3.
C4_ScenarioTwoTracks ==
    GtiReturned /\ mkv = Scenario =>
        /\ Catalog = << <<1, 750, Title1Mkv>>, <<2, 3900, <<>> >> >>
        /\ titles = <<3>>

\* C4 amended: the four lines give exactly the catalog [track 0: 0 s, no
\* filename; track 1: 750 s, "title1.mkv"; track 2: 3900 s, "title1.mkv"]
\* and set the title count to 3.
C4_ScenarioThreeTracks ==
    GtiReturned /\ mkv = Scenario =>
        /\ Catalog = << <<0, 0, <<>> >>, <<1, 750, Title1Mkv>>, <<2, 3900, Title1Mkv>> >>
        /\ titles = <<3>>

C4_Witness == GtiReturned /\ mkv = Scenario /\ Len(emitted) = 3

\* C5: a malformed status line never aborts get_track_info: no ValueError or
\* IndexError of the line decoding leaves it.
C5_MalformedLineNeverAborts ==
    ~(pc = "raised" /\ err.kind \in {"ValueError", "IndexError"})


(***************************************************************************)
(* Properties of the command runs of makemkv (checked under Spec)          *)
(***************************************************************************)
CountCmd(name) == Cardinality({k \in 1..Len(cmds) : cmds[k].cmd = name})

ProbeRuns  == CountCmd("probe")
KeyUpdates == CountCmd("update_key")

LastCmd == cmds[Len(cmds)]

\* prep_mkv has returned to makemkv
PrepReturned ==
    /\ pc \notin {"prep_mkv", "update_key", "prep_retry"}
    /\ ~(pc = "raised" /\ LastCmd.cmd \in {"probe", "update_key"})

\* prep_mkv has ended by raising
PrepRaised == pc = "raised" /\ LastCmd.cmd \in {"probe", "update_key"}

Success          == PrepReturned /\ ProbeRuns = 1
RecoveredSuccess == PrepReturned /\ ProbeRuns = 2

FirstProbeIs(code) == Len(cmds) >= 1 /\ cmds[1] = Cmd("probe", <<>>, code)

\* the first probe exited with 253, update_key succeeded and the retry exited
\* with `code`
RetryIs(code) ==
    /\ FirstProbeIs(253)
    /\ Len(cmds) >= 3 /\ cmds[2] = Cmd("update_key", <<>>, 0)
    /\ cmds[3] = Cmd("probe", <<>>, code)

\* C6: a first probe exit of 10 is Success with update_key never run; 253
\* then a retry exit of 10 is RecoveredSuccess with update_key run exactly
\* once; update_key never runs more than once, the probe never more than
\* twice.
C6_ProbeRecoveryCounts ==
    /\ (FirstProbeIs(10) => (Success /\ KeyUpdates = 0))
    /\ (RetryIs(10) => (RecoveredSuccess /\ KeyUpdates = 1))
    /\ KeyUpdates <= 1
    /\ ProbeRuns <= 2

C6_Witness == RetryIs(10) /\ pc = "disc_number" /\ KeyUpdates = 1 /\ ProbeRuns = 2

\* the Fatal outcome of the last command run: an exception leaves makemkv and
\* the message built for it carries that command's exit code and output
FatalWithLastCmd ==
    /\ pc = "raised"
    /\ Len(errlog) = 1
    /\ errlog[1].returncode = LastCmd.code
    /\ errlog[1].output = <<LastCmd.cmd, Len(cmds)>>

\* C7 as stated: 253 then a retry exit other than 10, 0 included, is Fatal
\* with the retry's exit code, never a success.
C7_RetryNot10IsFatal ==
    \A code \in ExitCodes \ {10} :
        RetryIs(code) => (PrepRaised /\ Len(cmds) = 3 /\ FatalWithLastCmd)

\* C7 amended: 253 then a retry exit other than 10 and 0 is Fatal with the
\* retry's exit code, never a success; a retry exit of 0 returns normally,
\* like 10.
C7_RetryNot10Not0IsFatal ==
    /\ \A code \in ExitCodes \ {10, 0} :
           RetryIs(code) => (PrepRaised /\ Len(cmds) = 3 /\ FatalWithLastCmd)
    /\ RetryIs(0) => RecoveredSuccess

C7_Witness == RetryIs(1) /\ PrepRaised /\ FatalWithLastCmd

ToolCmds == {"probe", "disc_number", "info", "backup", "mkv_all", "mkv_track"}

\* the last command run was a makemkvcon command and ended Fatal
ToolFatal ==
    /\ pc = "raised"
    /\ LastCmd.cmd \in ToolCmds
    /\ LastCmd.code # 0
    /\ err.kind \notin {"ValueError", "IndexError", "SystemExit"}

\* C8: a Fatal outcome of a makemkvcon command reaches the caller as a
\* MakeMkvRuntimeError carrying the exit code and the output of the process.
C8_FatalIsMakeMkvRuntimeError ==
    ToolFatal => /\ err.kind = "MakeMkvRuntimeError"
                 /\ err.code = <<LastCmd.code>>
                 /\ err.output = <<LastCmd.cmd, Len(cmds)>>

\* C9: when the probe exits with 253 and update_key fails, prep_mkv raises
\* the MakeMkvRuntimeError of the probe command, not an error of another
\* kind carrying only the return code of the update script.
C9_UpdateKeyFailureIsToolError ==
    (FirstProbeIs(253) /\ Len(cmds) = 2 /\ cmds[2].cmd = "update_key" /\ cmds[2].code # 0)
        => /\ pc = "raised"
           /\ err.kind = "MakeMkvRuntimeError"
           /\ err.output = <<"probe", 1>>

RipCmds == {"backup", "mkv_all", "mkv_track"}

\* C10 as stated: an exit code 253 of a backup, whole-disc or per-track
\* command is not an immediate Fatal: update_key runs once and the command is
\* run again.
C10_RipCommandRecovers ==
    (cmds # <<>> /\ LastCmd.cmd \in RipCmds /\ LastCmd.code = 253) => pc # "raised"

\* C10 amended: every backup, whole-disc and per-track command goes through
\* run_makemkv, where exit 0 is the only success: any other exit code, 253
\* included, is an immediate Fatal with that code; update_key is not run and
\* the command is not run again.
C10_RipCommandFailsAtOnce ==
    \A k \in 1..Len(cmds) :
        cmds[k].cmd \in RipCmds =>
            /\ (cmds[k].code # 0 => (k = Len(cmds) /\ FatalWithLastCmd))
            /\ \A j \in (k + 1)..Len(cmds) : cmds[j].cmd # "update_key"

C10_Witness ==
    /\ cmds # <<>> /\ LastCmd.cmd = "mkv_track" /\ LastCmd.code = 253
    /\ FatalWithLastCmd /\ KeyUpdates = 0


(***************************************************************************)
(* Properties of the strategy selection (checked under Spec)               *)
(***************************************************************************)
BackupRan    == CountCmd("backup") >= 1
WholeDiscRan == CountCmd("mkv_all") >= 1
\* process_single_tracks was entered
PerTrackRan  == pc = "tracks" \/ tracklog # <<>>

StrategiesRun ==
    (IF BackupRan THEN 1 ELSE 0) + (IF WholeDiscRan THEN 1 ELSE 0)
        + (IF PerTrackRan THEN 1 ELSE 0)

\* rip method backup with a disc that is neither bluray nor dvd
NoBranchConfig == cfg.RIPMETHOD = "backup" /\ disctype \notin {"bluray", "dvd"}

\* C11 as stated: a makemkv run that got past the probe and the path setup
\* and returned has executed exactly one of the three strategies.
C11_ExactlyOneStrategy ==
    pc = "done" => StrategiesRun = 1

\* C11 amended: no run executes more than one strategy; a run that returns
\* has executed exactly one, except with rip method backup and a disc type
\* that is neither bluray nor dvd, where it has executed none; backup is
\* the one executed exactly for rip method backup on a bluray.
C11_AtMostOneStrategy ==
    /\ StrategiesRun <= 1
    /\ pc = "done" => StrategiesRun = (IF NoBranchConfig THEN 0 ELSE 1)
    /\ BackupRan => (cfg.RIPMETHOD = "backup" /\ disctype = "bluray")
    /\ (pc = "done" /\ cfg.RIPMETHOD = "backup" /\ disctype = "bluray") => BackupRan

C11_Witness ==
    /\ pc = "done" /\ NoBranchConfig /\ StrategiesRun = 0 /\ result # "none"

\* C12 as stated: with a maximum length of 99999 or more and a disc type
\* other than bluray, a run that returns has issued exactly one whole-disc
\* command and has iterated over no track, whatever the rip method; a
\* maximum of 99998 or less never selects the whole-disc command.
C12_WholeDiscWhateverMethod ==
    /\ (pc = "done" /\ cfg.MAXLENGTH >= 99999 /\ disctype # "bluray")
           => (CountCmd("mkv_all") = 1 /\ ~PerTrackRan)
    /\ cfg.MAXLENGTH <= 99998 => ~WholeDiscRan

\* C12 amended: with a maximum length of 99999 or more and a disc type other
\* than bluray, a run that returns has iterated over no track and has issued
\* exactly one whole-disc command when the rip method is mkv or the disc type
\* is dvd, and no command at all otherwise; a maximum of 99998 or less never
\* selects the whole-disc command.
C12_WholeDiscOnMkvBranch ==
    /\ (pc = "done" /\ cfg.MAXLENGTH >= 99999 /\ disctype # "bluray")
           => /\ ~PerTrackRan
              /\ CountCmd("mkv_all") =
                     (IF cfg.RIPMETHOD = "mkv" \/ disctype = "dvd" THEN 1 ELSE 0)
              /\ (~(cfg.RIPMETHOD = "mkv" \/ disctype = "dvd")
                     => \A k \in 1..Len(cmds) : cmds[k].cmd \notin RipCmds)
    /\ cfg.MAXLENGTH >= 99999 => ~PerTrackRan
    /\ cfg.MAXLENGTH <= 99998 => ~WholeDiscRan

C12_Witness ==
    /\ pc = "done" /\ cfg.MAXLENGTH = 99999 /\ disctype = "data"
    /\ cfg.RIPMETHOD = "mkv" /\ CountCmd("mkv_all") = 1 /\ Len(emitted) >= 2


(***************************************************************************)
(* Properties of process_single_tracks (checked under Spec)                *)
(***************************************************************************)
\* the track numbers of the per-track commands issued, in order
TrackCmdArgs ==
    LET IsTrackCmd(c) == c.cmd = "mkv_track"
        sel == SelectSeq(cmds, IsTrackCmd)
    IN [k \in 1..Len(sel) |-> sel[k].arg[1]]

\* the track numbers of the tracks decided as selected, in order
SelectedTracks ==
    LET IsRip(d) == d[2] = "rip"
        sel == SelectSeq(tracklog, IsRip)
    IN [k \in 1..Len(sel) |-> sel[k][1]]

\* C13: every track of the catalog that the loop reaches gets exactly one of
\* the decisions too short, too long, selected; it is selected iff
\* minimum <= length <= maximum; one command is issued per selected track,
\* none per skipped track, in catalog order; a loop that ends has decided
\* every track of the catalog.
C13_PerTrackFilter ==
    /\ Len(tracklog) <= Len(JobTracks)
    /\ \A k \in 1..Len(tracklog) :
           LET t == JobTracks[k]
               d == tracklog[k][2] IN
           /\ tracklog[k][1] = t.track_number
           /\ d \in {"short", "long", "rip"}
           /\ d = "rip" <=> (cfg.MINLENGTH <= t.length /\ t.length <= cfg.MAXLENGTH)
           /\ d = "short" => t.length < cfg.MINLENGTH
           /\ d = "long" => t.length > cfg.MAXLENGTH
    /\ TrackCmdArgs = SelectedTracks
    /\ (PerTrackRan /\ pc \in {"eject", "done"}) => Len(tracklog) = Len(JobTracks)

C13_Witness ==
    /\ pc = "done" /\ Len(tracklog) = 3
    /\ {tracklog[k][2] : k \in 1..3} = {"short", "long", "rip"}
    /\ Len(TrackCmdArgs) = 1

C13_WitnessMinAboveMax ==
    /\ pc = "done" /\ cfg.MINLENGTH > cfg.MAXLENGTH
    /\ \E k \in 1..Len(tracklog) : tracklog[k][2] = "long"
    /\ \E k \in 1..Len(tracklog) : tracklog[k][2] = "short"


(***************************************************************************)
(* Properties of setup_rawpath (checked under Spec)                        *)
(***************************************************************************)
\* setup_rawpath has been called
RawpathCalled == fs.makedirs # "none"

\* some backup, whole-disc or per-track command has been issued
RipIssued == \E k \in 1..Len(cmds) : cmds[k].cmd \in RipCmds

\* C14: a failure of os.makedirs other than "already exists" is fatal on the
\* first candidate path as on the suffixed one, and no rip command is issued
\* with an output directory whose creation failed.
C14_CreationFailureIsFatal ==
    fs.makedirs = "PermissionError" =>
        /\ pc = "raised" /\ err.kind = "SystemExit"
        /\ result = "none"
        /\ ~RipIssued

\* C15: when the destination exists at the time of the test, the path used is
\* the suffixed candidate, and either os.makedirs created it or the run is
\* aborted by SystemExit with no result and no rip command; the path that
\* existed is never the rip location.
C15_ExistingPathIsSuffixed ==
    (RawpathCalled /\ fs.existed) =>
        /\ rawpath = "suffixed"
        /\ result # "base"
        /\ \/ fs.makedirs = "ok" /\ err.kind # "SystemExit"
           \/ /\ fs.makedirs # "ok"
              /\ pc = "raised" /\ err.kind = "SystemExit"
              /\ result = "none" /\ ~RipIssued
        /\ pc = "done" => result = "suffixed"

C15_Witness ==
    /\ fs.existed /\ fs.makedirs = "ok"
    /\ pc = "done" /\ result = "suffixed" /\ RipIssued

C15_WitnessAbort ==
    /\ fs.existed /\ fs.makedirs = "FileExistsError"
    /\ pc = "raised" /\ err.kind = "SystemExit"


(***************************************************************************)
(* Fatal outcomes and the order of the commands (checked under Spec)       *)
(***************************************************************************)
\* the k-th command is a makemkvcon command that ended in a Fatal outcome
IsFatal(k) ==
    LET c == cmds[k] IN
    /\ c.cmd \in ToolCmds
    /\ IF c.cmd = "probe"
       THEN IF k = 1 THEN c.code \notin {0, 10, 253} ELSE c.code \notin {0, 10}
       ELSE c.code # 0

\* the probe has ended in a success outcome before the k-th command
ProbeSucceededBefore(k) ==
    \/ k > 1 /\ (FirstProbeIs(0) \/ FirstProbeIs(10))
    \/ k > 3 /\ (RetryIs(0) \/ RetryIs(10))

\* C16: a Fatal outcome of a makemkvcon command is the last command of the
\* run, which ends raised without a result path; in per-track mode the track
\* whose command was Fatal is the last track the loop reached; no backup or
\* rip command comes before a success outcome of the probe.
C16_FatalEndsRun ==
    /\ \A k \in 1..Len(cmds) :
           IsFatal(k) => (k = Len(cmds) /\ pc = "raised" /\ result = "none")
    /\ pc = "raised" => result = "none"
    /\ (cmds # <<>> /\ LastCmd.cmd = "mkv_track" /\ IsFatal(Len(cmds))) =>
           /\ tracklog # <<>>
           /\ tracklog[Len(tracklog)] = <<LastCmd.arg[1], "rip">>
           /\ ti = Len(tracklog) + 1
    /\ \A k \in 1..Len(cmds) :
           cmds[k].cmd \in RipCmds => ProbeSucceededBefore(k)

\* a per-track command was Fatal while a later track of the catalog would
\* have been selected
C16_Witness ==
    /\ pc = "raised" /\ LastCmd.cmd = "mkv_track" /\ IsFatal(Len(cmds))
    /\ \E k \in ti..Len(JobTracks) : TrackDecision(JobTracks[k]) = "rip"

\* a backup command issued after the probe recovered through update_key
C16_WitnessRecovered ==
    /\ RetryIs(10) /\ CountCmd("backup") = 1 /\ pc = "done"


(***************************************************************************)
(* The accumulator of get_track_info, step by step (checked under          *)
(* SpecTrack)                                                              *)
(***************************************************************************)
\* the step is one iteration of the loop of get_track_info that did not raise
LoopStep == pc = "gti_loop" /\ i <= Len(mkv) /\ pc' = "gti_loop" /\ i' = i + 1

\* the fields of the record after the first colon
Msg(line) == Split(SplitOnce(line, ":")[2], ",")

\* the fieldCode of a TINFO record, <<>> when the record has none
FieldCode(line) == IF Len(Msg(line)) >= 2 THEN Msg(line)[2] ELSE <<>>

\* the line is a TINFO record whose trackIndex differs from the current track
Boundary(line) == IsTinfo(line) /\ TinfoIndex(line) # track

Fps0 == [m |-> 0, e |-> 0]

\* C17: at a TINFO track boundary only the current track number is reset:
\* aspect and fps keep their values, and so do the length and the filename
\* unless the boundary line itself carries fieldCode 9 or 27; a track whose
\* own filename and aspect lines never arrive is emitted with the values of
\* the preceding track.
C17_BoundaryResetsOnlyTrack ==
    /\ [][ (LoopStep /\ Boundary(mkv[i])) =>
              /\ track' = TinfoIndex(mkv[i])
              /\ aspect' = aspect /\ fps' = fps
              /\ FieldCode(mkv[i]) # <<"2","7">> => filename' = filename
              /\ FieldCode(mkv[i]) # <<"9">> => seconds' = seconds ]_vars
    /\ []((GtiReturned /\ mkv = <<L_T1_NAME, L_S1_ASPECT, L_T2_LEN>>) =>
             emitted[Len(emitted)] = TrackRow(2, 3900, Aspect_16_9, Fps0, Title1Mkv))
    /\ []((GtiReturned /\ mkv = <<L_T2_LEN, L_T1_NAME>>) =>
             emitted[Len(emitted)] = TrackRow(1, 3900, <<>>, Fps0, Title1Mkv))

\* track 2 emitted with the filename and the aspect ratio of track 1
C17_Witness ==
    /\ GtiReturned /\ mkv = <<L_T1_NAME, L_S1_ASPECT, L_T2_LEN>>
    /\ Len(emitted) = 3
    /\ emitted[2].track_number = 1 /\ emitted[3].track_number = 2
    /\ emitted[3].filename = Title1Mkv /\ emitted[3].aspect_ratio = Aspect_16_9

\* the step is one iteration of the loop, raising or not
AnyLoopStep == pc = "gti_loop" /\ i <= Len(mkv) /\ (i' = i + 1 \/ pc' = "raised")

\* C18: a TINFO line that crosses a track boundary with a non-zero index
\* emits the previous track with the values accumulated before that line, and
\* the length or filename the line carries goes to the new current track
\* only; no iteration emits anything but that row.
C18_BoundaryEmitsOldValues ==
    [][ /\ AnyLoopStep =>
              emitted' \in {emitted,
                            Append(emitted, TrackRow(track, seconds, aspect, fps, filename))}
        /\ (LoopStep /\ Boundary(mkv[i]) /\ TinfoIndex(mkv[i]) # 0) =>
              /\ emitted' = Append(emitted, TrackRow(track, seconds, aspect, fps, filename))
              /\ track' = TinfoIndex(mkv[i])
              /\ mkv[i] = L_T1_LEN => seconds' = 750
              /\ mkv[i] = L_T2_LEN => seconds' = 3900
              /\ mkv[i] = L_T1_NAME => filename' = Title1Mkv ]_vars

\* track 1 was emitted with its own length and filename by the length line of
\* track 2, whose length is now the current one
C18_Witness ==
    /\ pc = "gti_loop" /\ i = 4
    /\ mkv = <<L_T1_LEN, L_T1_NAME, L_T2_LEN>>
    /\ emitted = <<TrackRow(0, 0, <<>>, Fps0, <<>>), TrackRow(1, 750, <<>>, Fps0, Title1Mkv)>>
    /\ track = 2 /\ seconds = 3900 /\ filename = Title1Mkv

\* C19: a TCOUNT line makes exactly one database_updater call, with the
\* parsed count, and leaves the locals of the loop and the emitted rows
\* unchanged; well-formed CINFO and MSG lines and unrecognized lines change
\* nothing and make no call at all; none of them ends the loop.
C19_OtherLinesLeaveAccumulator ==
    [][ (pc = "gti_loop" /\ i <= Len(mkv)
         /\ mkv[i] \in {L_TCOUNT3, L_CINFO, L_MSG, L_OTHER}) =>
            /\ pc' = "gti_loop" /\ i' = i + 1
            /\ UNCHANGED <<track, seconds, aspect, fps, filename, emitted>>
            /\ titles' = (IF mkv[i] = L_TCOUNT3 THEN Append(titles, 3) ELSE titles) ]_vars

\* a TCOUNT line read in the middle of track 1
C19_Witness ==
    /\ pc = "gti_loop" /\ i = 3
    /\ mkv[1] = L_T1_LEN /\ mkv[2] = L_TCOUNT3
    /\ titles = <<3>>
    /\ track = 1 /\ seconds = 750 /\ Len(emitted) = 1


(***************************************************************************)
(* Properties of find_track_length (checked under SpecLength)              *)
(***************************************************************************)
\* C20: on a TINFO line with fieldCode 9 and a field H:MM:SS, 0 <= MM, SS < 60,
\* find_track_length returns H*3600 + MM*60 + SS: re-encoding the returned
\* seconds as hours, minutes and seconds gives the line that was read, so
\* distinct fields give distinct seconds; on every other line the loop hands
\* to it, it returns the seconds it was given.
C20_LengthRoundTrip ==
    [][ AnyLoopStep =>
          IF IsTinfo(mkv[i]) /\ FieldCode(mkv[i]) = <<"9">>
          THEN /\ pc' = "gti_loop"
               /\ seconds' >= 0
               /\ mkv[i] = LenLine(seconds' \div 3600, (seconds' % 3600) \div 60,
                                   seconds' % 60)
          ELSE seconds' = seconds ]_vars

\* 2:59:59 was read as 10799 seconds and kept over a filename line
C20_Witness ==
    /\ GtiReturned
    /\ mkv = <<LenLine(2, 59, 59), L_T1_NAME>>
    /\ seconds = 10799
    /\ emitted[Len(emitted)].length = 10799

====
